---- MODULE Spec2Model ----
(***************************************************************************)
(* A model of qa_automation.py: the Jira-to-Cypress pipeline               *)
(*   fetch_jira_requirements -> create_or_update_vector_store ->           *)
(*   generate_cypress_tests -> save_test_code                              *)
(* with the child test runner that save_test_code launches, the failure    *)
(* classifier analyze_error and the rich-text flattener                    *)
(* extract_text_from_adf.                                                  *)
(*                                                                         *)
(* Text is a sequence of one-character strings, so that lower(), the       *)
(* substring tests, str.strip() and string concatenation are computed and  *)
(* not assumed.                                                            *)
(***************************************************************************)
EXTENDS Naturals, Sequences, FiniteSets

VARIABLES
    pc,          \* where the main program is
    state,       \* the QAState dict: a function from the keys set so far
    env,         \* the machine the script runs on: platform, shell, npx
    trail,       \* the stages main has called so far, in order
    prompt,      \* the prompt generate_cypress_tests built
    file,        \* cypress/e2e/generated_tests.cy.js on disk
    popen,       \* the argument lists subprocess.Popen was called with
    child,       \* the child process: state, command line, exit code, times
    pipe,        \* lines written to the child's stdout and not yet read
    emitted,     \* every line the child has written, in order
    full_output, \* save_test_code's accumulator
    console,     \* what save_test_code and main have printed about the run
    clock,       \* seconds since Popen, and since process.wait was entered
    arg,         \* the argument a pure function is called with
    ret,         \* its return value
    called       \* whether it has returned

vars == <<pc, state, env, trail, prompt, file, popen, child, pipe, emitted,
          full_output, console, clock, arg, ret, called>>

(***************************************************************************)
(* Characters and str methods                                              *)
(***************************************************************************)
LowerChars == <<"a", "b", "c", "d", "e", "f", "g", "h", "i", "j", "k", "l", "m", "n", "o", "p", "q", "r", "s", "t", "u", "v", "w", "x", "y", "z">>

UpperChars == <<"A", "B", "C", "D", "E", "F", "G", "H", "I", "J", "K", "L", "M", "N", "O", "P", "Q", "R", "S", "T", "U", "V", "W", "X", "Y", "Z">>

OtherChars == {" ", "\n", "\t", "/", ":", ".", "(", ")", "1", "'"}

Alphabet == {LowerChars[i] : i \in 1..26} \cup {UpperChars[i] : i \in 1..26} \cup OtherChars

\* str.lower() on one character
lower_char == [c \in Alphabet |-> IF \E i \in 1..26 : UpperChars[i] = c THEN LowerChars[CHOOSE i \in 1..26 : UpperChars[i] = c] ELSE c]

\* str.lower()
lower(s) == [i \in 1..Len(s) |-> lower_char[s[i]]]

\* Python's `sub in s` on str
Contains(s, sub) == \E i \in 1..(Len(s) + 1) : i + Len(sub) - 1 <= Len(s) /\ SubSeq(s, i, i + Len(sub) - 1) = sub

\* the characters str.strip() removes
Whitespace == {" ", "\n", "\t"}

RECURSIVE lstrip(_)
lstrip(s) == IF s # <<>> /\ Head(s) \in Whitespace THEN lstrip(Tail(s)) ELSE s

RECURSIVE rstrip(_)
rstrip(s) == IF s # <<>> /\ s[Len(s)] \in Whitespace THEN rstrip(SubSeq(s, 1, Len(s) - 1)) ELSE s

\* str.strip()
strip(s) == rstrip(lstrip(s))

\* s[:n]
Slice(s, n) == SubSeq(s, 1, IF Len(s) < n THEN Len(s) ELSE n)

\* Python's None where a str is expected; no text equals it, a character
\* being a string of length one
None == <<"None">>

(***************************************************************************)
(* analyze_error                                                           *)
(***************************************************************************)
KW_could_not_verify == <<"c", "y", "p", "r", "e", "s", "s", " ", "c", "o", "u", "l", "d", " ", "n", "o", "t", " ", "v", "e", "r", "i", "f", "y">>

KW_verification == <<"c", "y", "p", "r", "e", "s", "s", " ", "v", "e", "r", "i", "f", "i", "c", "a", "t", "i", "o", "n">>

KW_not_found == <<"n", "o", "t", " ", "f", "o", "u", "n", "d">>

KW_element == <<"e", "l", "e", "m", "e", "n", "t">>

KW_selector == <<"s", "e", "l", "e", "c", "t", "o", "r">>

KW_timed_out == <<"t", "i", "m", "e", "d", " ", "o", "u", "t">>

KW_timeout == <<"t", "i", "m", "e", "o", "u", "t">>

KW_not_visible == <<"n", "o", "t", " ", "v", "i", "s", "i", "b", "l", "e">>

KW_not_actionable == <<"n", "o", "t", " ", "a", "c", "t", "i", "o", "n", "a", "b", "l", "e">>

KW_expected == <<"e", "x", "p", "e", "c", "t", "e", "d">>

KW_assertion == <<"a", "s", "s", "e", "r", "t", "i", "o", "n">>

KW_network == <<"n", "e", "t", "w", "o", "r", "k">>

KW_fetch == <<"f", "e", "t", "c", "h">>

KW_cypress_run == <<"c", "y", "p", "r", "e", "s", "s", " ", "r", "u", "n">>

KW_unicode == <<"u", "n", "i", "c", "o", "d", "e">>

KW_encoding == <<"e", "n", "c", "o", "d", "i", "n", "g">>

\* the length of the excerpt the "unknown" advisory embeds
SnippetLen == 200

\* an advisory: which message is returned, and the excerpt the message embeds
Advice(a, snip) == [advice |-> a, snippet |-> snip]

\* the same decision list with the timeout test moved before the
\* element-not-found test
analyze_error_timeout_first(error_text) ==
    IF error_text = None \/ error_text = <<>>
    THEN Advice("NO_ERROR_OUTPUT", <<>>)
    ELSE LET error == lower(error_text) IN
         IF Contains(error, KW_could_not_verify) \/ Contains(error, KW_verification)
         THEN Advice("CYPRESS_INSTALL_ISSUE", <<>>)
         ELSE IF Contains(error, KW_timed_out) \/ Contains(error, KW_timeout)
         THEN Advice("TIMEOUT_ERROR", <<>>)
         ELSE IF Contains(error, KW_not_found) /\ (Contains(error, KW_element) \/ Contains(error, KW_selector))
         THEN Advice("ELEMENT_NOT_FOUND", <<>>)
         ELSE IF Contains(error, KW_not_visible) \/ Contains(error, KW_not_actionable)
         THEN Advice("ELEMENT_NOT_VISIBLE", <<>>)
         ELSE IF Contains(error, KW_expected) \/ Contains(error, KW_assertion)
         THEN Advice("ASSERTION_FAILED", <<>>)
         ELSE IF Contains(error, KW_network) \/ Contains(error, KW_fetch)
         THEN Advice("NETWORK_ISSUE", <<>>)
         ELSE IF Contains(error, KW_cypress_run)
         THEN Advice("CYPRESS_CONFIG", <<>>)
         ELSE IF Contains(error, KW_unicode) \/ Contains(error, KW_encoding)
         THEN Advice("ENCODING_ISSUE", <<>>)
         ELSE Advice("UNKNOWN_ERROR", Slice(error_text, SnippetLen))

\* the same decision list matching on the text as given, without lower()
analyze_error_case_sensitive(error_text) ==
    IF error_text = None \/ error_text = <<>>
    THEN Advice("NO_ERROR_OUTPUT", <<>>)
    ELSE LET error == error_text IN
         IF Contains(error, KW_could_not_verify) \/ Contains(error, KW_verification)
         THEN Advice("CYPRESS_INSTALL_ISSUE", <<>>)
         ELSE IF Contains(error, KW_not_found) /\ (Contains(error, KW_element) \/ Contains(error, KW_selector))
         THEN Advice("ELEMENT_NOT_FOUND", <<>>)
         ELSE IF Contains(error, KW_timed_out) \/ Contains(error, KW_timeout)
         THEN Advice("TIMEOUT_ERROR", <<>>)
         ELSE IF Contains(error, KW_not_visible) \/ Contains(error, KW_not_actionable)
         THEN Advice("ELEMENT_NOT_VISIBLE", <<>>)
         ELSE IF Contains(error, KW_expected) \/ Contains(error, KW_assertion)
         THEN Advice("ASSERTION_FAILED", <<>>)
         ELSE IF Contains(error, KW_network) \/ Contains(error, KW_fetch)
         THEN Advice("NETWORK_ISSUE", <<>>)
         ELSE IF Contains(error, KW_cypress_run)
         THEN Advice("CYPRESS_CONFIG", <<>>)
         ELSE IF Contains(error, KW_unicode) \/ Contains(error, KW_encoding)
         THEN Advice("ENCODING_ISSUE", <<>>)
         ELSE Advice("UNKNOWN_ERROR", Slice(error_text, SnippetLen))

\* analyze_error(error_text): `not error_text` first, then the elif chain
\* over error_text.lower()
analyze_error(error_text) ==
    IF error_text = None \/ error_text = <<>>
    THEN Advice("NO_ERROR_OUTPUT", <<>>)
    ELSE LET error == lower(error_text) IN
         IF Contains(error, KW_could_not_verify) \/ Contains(error, KW_verification)
         THEN Advice("CYPRESS_INSTALL_ISSUE", <<>>)
         ELSE IF Contains(error, KW_not_found) /\ (Contains(error, KW_element) \/ Contains(error, KW_selector))
         THEN Advice("ELEMENT_NOT_FOUND", <<>>)
         ELSE IF Contains(error, KW_timed_out) \/ Contains(error, KW_timeout)
         THEN Advice("TIMEOUT_ERROR", <<>>)
         ELSE IF Contains(error, KW_not_visible) \/ Contains(error, KW_not_actionable)
         THEN Advice("ELEMENT_NOT_VISIBLE", <<>>)
         ELSE IF Contains(error, KW_expected) \/ Contains(error, KW_assertion)
         THEN Advice("ASSERTION_FAILED", <<>>)
         ELSE IF Contains(error, KW_network) \/ Contains(error, KW_fetch)
         THEN Advice("NETWORK_ISSUE", <<>>)
         ELSE IF Contains(error, KW_cypress_run)
         THEN Advice("CYPRESS_CONFIG", <<>>)
         ELSE IF Contains(error, KW_unicode) \/ Contains(error, KW_encoding)
         THEN Advice("ENCODING_ISSUE", <<>>)
         ELSE Advice("UNKNOWN_ERROR", Slice(error_text, SnippetLen))

\* the pieces the classifier's inputs are put together from: every keyword of
\* the decision list, in lower, upper or mixed case, and a filler
Fragments == {
    <<"c", "y", "p", "r", "e", "s", "s", " ", "c", "o", "u", "l", "d", " ", "n", "o", "t", " ", "v", "e", "r", "i", "f", "y">>,
    <<"C", "y", "p", "r", "e", "s", "s", " ", "V", "E", "R", "I", "F", "I", "C", "A", "T", "I", "O", "N">>,
    <<"N", "o", "t", " ", "F", "o", "u", "n", "d">>,
    <<"e", "l", "e", "m", "e", "n", "t">>,
    <<"S", "e", "l", "e", "c", "t", "o", "r">>,
    <<"T", "I", "M", "E", "D", " ", "O", "U", "T">>,
    <<"T", "i", "m", "e", "o", "u", "t">>,
    <<"n", "o", "t", " ", "v", "i", "s", "i", "b", "l", "e">>,
    <<"N", "o", "t", " ", "A", "c", "t", "i", "o", "n", "a", "b", "l", "e">>,
    <<"u", "n", "e", "x", "p", "e", "c", "t", "e", "d">>,
    <<"A", "S", "S", "E", "R", "T", "I", "O", "N">>,
    <<"N", "e", "t", "w", "o", "r", "k">>,
    <<"f", "e", "t", "c", "h">>,
    <<"C", "y", "p", "r", "e", "s", "s", " ", "R", "u", "n">>,
    <<"U", "n", "i", "c", "o", "d", "e">>,
    <<"e", "n", "c", "o", "d", "i", "n", "g">>,
    <<"o", "k", " ">>}

\* how many fragments an input of the classifier is put together from
MaxFrags == 3

RECURSIVE Texts(_)
Texts(n) == IF n = 0 THEN {<<>>} ELSE Texts(n - 1) \cup {t \o f : t \in Texts(n - 1), f \in Fragments}

\* the pipeline's variables in the specifications of the pure functions
PipelineIdle ==
    /\ pc = "idle"
    /\ state = <<>>
    /\ env = <<>>
    /\ trail = <<>>
    /\ prompt = <<>>
    /\ file = <<>>
    /\ popen = <<>>
    /\ child = <<>>
    /\ pipe = <<>>
    /\ emitted = <<>>
    /\ full_output = <<>>
    /\ console = <<>>
    /\ clock = <<>>

pipelineVars == <<pc, state, env, trail, prompt, file, popen, child, pipe, emitted, full_output, console, clock>>

InitClassify ==
    /\ arg \in Texts(MaxFrags) \cup {None}
    /\ ret = Advice("", <<>>)
    /\ called = FALSE
    /\ PipelineIdle

\* one call analyze_error(arg)
Classify ==
    /\ ~called
    /\ ret' = analyze_error(arg)
    /\ called' = TRUE
    /\ UNCHANGED <<pipelineVars, arg>>

NextClassify == Classify

SpecClassify == InitClassify /\ [][NextClassify]_vars

(***************************************************************************)
(* extract_text_from_adf                                                   *)
(*                                                                         *)
(* A JSON value is a record tagged with its Python type: a dict carries    *)
(* the function d from its keys, a list its items, a str its characters.   *)
(***************************************************************************)
PyDict(d) == [py |-> "dict", d |-> d]

PyList(items) == [py |-> "list", items |-> items]

PyStr(s) == [py |-> "str", s |-> s]

\* " ".join(parts)
RECURSIVE join(_, _)
join(sep, parts) ==
    IF parts = <<>> THEN <<>>
    ELSE IF Len(parts) = 1 THEN parts[1]
    ELSE parts[1] \o sep \o join(sep, Tail(parts))

\* what `for child in v` yields: the items of a list, the keys of a dict and
\* the characters of a str (both as str values)
IterItems(v) ==
    IF v.py = "list" THEN v.items
    ELSE IF v.py = "str" THEN [i \in 1..Len(v.s) |-> PyStr(<<v.s[i]>>)]
    ELSE <<>>

\* the walk that stops at the first child of every container
RECURSIVE extract_text_first_child(_)
extract_text_first_child(node) ==
    IF node.py = "dict"
    THEN IF "type" \in DOMAIN node.d /\ node.d.type = "text"
         THEN <<IF "text" \in DOMAIN node.d THEN node.d.text ELSE <<>>>>
         ELSE IF "content" \in DOMAIN node.d /\ IterItems(node.d.content) # <<>>
         THEN extract_text_first_child(IterItems(node.d.content)[1])
         ELSE <<>>
    ELSE IF node.py = "list" /\ node.items # <<>>
    THEN extract_text_first_child(node.items[1])
    ELSE <<>>

\* the nested extract_text(node): the fragments it appends to text_parts, in
\* the order it appends them
RECURSIVE extract_text(_)
extract_text(node) ==
    IF node.py = "dict"
    THEN IF "type" \in DOMAIN node.d /\ node.d.type = "text"
         THEN <<IF "text" \in DOMAIN node.d THEN node.d.text ELSE <<>>>>
         ELSE IF "content" \in DOMAIN node.d
         THEN LET kids == IterItems(node.d.content)
                  walk[i \in 0..Len(kids)] == IF i = 0 THEN <<>> ELSE walk[i - 1] \o extract_text(kids[i])
              IN  walk[Len(kids)]
         ELSE <<>>
    ELSE IF node.py = "list"
    THEN LET walk[i \in 0..Len(node.items)] == IF i = 0 THEN <<>> ELSE walk[i - 1] \o extract_text(node.items[i])
         IN  walk[Len(node.items)]
    ELSE <<>>

\* extract_text_from_adf(adf_content); str() of a str is the str itself
extract_text_from_adf(adf_content) ==
    IF adf_content.py # "dict"
    THEN adf_content.s
    ELSE join(<<" ">>, extract_text(adf_content))

\* the nodes without children the documents are built from: two text nodes,
\* a text node without its "text" key, and a node that has no "content"
AdfLeaves == {
    PyDict([type |-> "text", text |-> <<"a">>]),
    PyDict([type |-> "text", text |-> <<"b">>]),
    PyDict([type |-> "text"]),
    PyDict([type |-> "hardBreak"])}

\* how many nodes (dicts and lists) a document has
MaxNodes == 4

RECURSIVE AdfTrees(_)
RECURSIVE AdfForests(_)
\* the trees with exactly n nodes
AdfTrees(n) ==
    IF n = 1
    THEN AdfLeaves \cup {PyDict([type |-> "paragraph", content |-> PyList(<<>>)]), PyList(<<>>)}
    ELSE {PyDict([type |-> "paragraph", content |-> PyList(f)]) : f \in AdfForests(n - 1)}
         \cup {PyList(f) : f \in AdfForests(n - 1)}

\* the sequences of trees with n nodes in all
AdfForests(n) ==
    IF n = 0 THEN {<<>>}
    ELSE UNION {{<<t>> \o f : t \in AdfTrees(k), f \in AdfForests(n - k)} : k \in 1..n}

\* the descriptions fetch_jira_requirements passes: dicts
AdfDocuments == {t \in UNION {AdfTrees(n) : n \in 1..MaxNodes} : t.py = "dict"}

InitAdf ==
    /\ arg \in AdfDocuments
    /\ ret = <<>>
    /\ called = FALSE
    /\ PipelineIdle

\* one call extract_text_from_adf(arg)
Flatten ==
    /\ ~called
    /\ ret' = extract_text_from_adf(arg)
    /\ called' = TRUE
    /\ UNCHANGED <<pipelineVars, arg>>

NextAdf == Flatten

SpecAdf == InitAdf /\ [][NextAdf]_vars

(***************************************************************************)
(* The pipeline of the main block                                          *)
(***************************************************************************)
\* dict[k] = v
Put(d, k, v) == [x \in DOMAIN d \cup {k} |-> IF x = k THEN v ELSE d[x]]

\* Python's `x or y` where x is a str or None
Or(x, y) == IF x = None \/ x = <<>> THEN y ELSE x

\* one print: what is printed, the text it embeds, and the advisory it embeds
Event(kind, text, advice) == [kind |-> kind, text |-> text, advice |-> advice]

Say(kind, text) == Event(kind, text, Advice("", <<>>))

Range(s) == {s[i] : i \in 1..Len(s)}

\* the except clause of the main block: whatever a stage raises ends the run
WorkflowFailed(e) ==
    /\ console' = Append(console, Say("workflow_failed", e))
    /\ pc' = "done"

PyNone == [py |-> "none"]

T_summary == <<"L", "o", "g", "i", "n", " ", "p", "a", "g", "e">>

T_description == <<"U", "s", "e", "r", " ", "c", "a", "n", " ", "l", "o", "g", " ", "i", "n">>

\* what stands in the issue's fields.description: null, a plain string, a
\* rich-text document with two text nodes, a document without text
Descriptions == {
    PyNone,
    PyStr(T_description),
    PyDict([type |-> "doc", content |-> PyList(<<PyDict([type |-> "paragraph", content |-> PyList(<<PyDict([type |-> "text", text |-> <<"a">>]), PyDict([type |-> "text", text |-> <<"b">>])>>)])>>)]),
    PyDict([type |-> "doc", content |-> PyList(<<>>)])}

Summaries == {<<>>, T_summary}

E_dns == <<"N", "a", "m", "e", " ", "o", "r", " ", "s", "e", "r", "v", "i", "c", "e", " ", "n", "o", "t", " ", "k", "n", "o", "w", "n">>

\* str(e) of the requests exceptions: a resolver message, and the empty
\* string of an exception raised without arguments
RequestErrors == {<<>>, E_dns}

FetchErrorPrefix == <<"E", "r", "r", "o", "r", " ", "f", "e", "t", "c", "h", "i", "n", "g", " ", "r", "e", "q", "u", "i", "r", "e", "m", "e", "n", "t", "s", ":", " ">>

\* the fallback that keeps only str(e)
FetchFallback_bare(e) == e

\* f"Error fetching requirements: {e}"
FetchFallback(e) == FetchErrorPrefix \o e

\* how much of the requirement the success message shows
PrintLen == 100

\* lines 87-93: the requirement of a fetched issue
requirements_of(description, summary) ==
    IF description.py = "dict"
    THEN Or(extract_text_from_adf(description), summary)
    ELSE Or(IF description.py = "none" THEN None ELSE description.s, summary)

fetch_jira_requirements ==
    /\ pc = "fetch"
    /\ trail' = Append(trail, "FetchReqs")
    /\ \/ \E description \in Descriptions, summary \in Summaries :
             /\ state' = Put(state, "requirements", requirements_of(description, summary))
             /\ console' = Append(console, Say("fetched", Slice(state'["requirements"], PrintLen)))
             /\ pc' = "vector"
       \/ \E e \in RequestErrors :
             /\ state' = Put(state, "requirements", FetchFallback(e))
             /\ console' = Append(console, Say("fetch_error", e))
             /\ pc' = "vector"
       \/ \* anything that is not a RequestException leaves the function
          /\ WorkflowFailed(<<>>)
          /\ UNCHANGED state
    /\ UNCHANGED <<env, prompt, file, popen, child, pipe, emitted, full_output, clock, arg, ret, called>>

\* create_or_update_vector_store(state): the documents are the files of
\* jira_requirements/ and, if it is not empty, the requirement; with none it
\* returns None, otherwise it splits, embeds and persists them. The store on
\* disk is read by no later stage and is not kept here.
create_or_update_vector_store ==
    /\ pc = "vector"
    /\ trail' = Append(trail, "VectorStore")
    /\ \E loaded \in 0..1 :
          LET documents == loaded + (IF state["requirements"] # <<>> THEN 1 ELSE 0) IN
          \/ /\ documents = 0
             /\ console' = Append(console, Say("no_documents", <<>>))
             /\ pc' = "generate"
          \/ /\ documents > 0
             /\ console' = console
             /\ pc' = "generate"
          \/ \* makedirs, the loader, the embedding call or the store raises
             WorkflowFailed(<<>>)
    /\ UNCHANGED <<state, env, prompt, file, popen, child, pipe, emitted, full_output, clock, arg, ret, called>>

\* the f-string of lines 154-176: the fixed text around the requirement
PromptTemplate(requirement) ==
    [head |-> "Convert the following Jira requirement into comprehensive Cypress test code",
     requirement |-> requirement,
     tail |-> "Generate Cypress JavaScript code that: ... Output only valid Cypress JavaScript code without markdown formatting."]

T_code == <<"i", "t", "(", "'", "l", "o", "g", "s", " ", "i", "n", "'", ")">>

T_blank == <<" ", "\n">>

\* response.content: code, white space, nothing
Responses == {T_code, T_blank, <<>>}

E_quota == <<"q", "u", "o", "t", "a", " ", "e", "x", "c", "e", "e", "d", "e", "d">>

\* str(e) of what llm.invoke raises
LlmErrors == {<<>>, E_quota}

GenErrorPrefix == <<"/", "/", " ", "E", "r", "r", "o", "r", " ", "g", "e", "n", "e", "r", "a", "t", "i", "n", "g", " ", "t", "e", "s", "t", "s", ":", " ">>

\* the fallback that keeps only str(e)
GenFallback_bare(e) == e

\* f"// Error generating tests: {e}"
GenFallback(e) == GenErrorPrefix \o e

generate_cypress_tests ==
    /\ pc = "generate"
    /\ trail' = Append(trail, "GenerateTests")
    /\ prompt' = PromptTemplate(state["requirements"])
    /\ \/ \E content \in Responses :
             /\ state' = Put(state, "test_code", content)
             /\ console' = Append(console, Say("generated", <<>>))
       \/ \E e \in LlmErrors :
             /\ state' = Put(state, "test_code", GenFallback(e))
             /\ console' = Append(console, Say("generate_error", e))
    /\ pc' = "save"
    /\ UNCHANGED <<env, file, popen, child, pipe, emitted, full_output, clock, arg, ret, called>>

(***************************************************************************)
(* save_test_code: the write, Popen, the read loop, process.wait           *)
(***************************************************************************)
filepath == "cypress/e2e/generated_tests.cy.js"

\* how much of the test code the preview shows
PreviewLen == 500

Ellipsis == <<".", ".", ".">>

\* lines 189-201: makedirs, open/write, the preview, the strip() test
save_test_code_write ==
    /\ pc = "save"
    /\ trail' = Append(trail, "SaveTests")
    /\ \/ /\ file' = [exists |-> TRUE, data |-> state["test_code"]]
          /\ console' = console \o <<Say("saved", <<>>),
                                     Say("preview", IF Len(state["test_code"]) > PreviewLen
                                                    THEN Slice(state["test_code"], PreviewLen) \o Ellipsis
                                                    ELSE state["test_code"])>>
          /\ pc' = IF strip(state["test_code"]) # <<>> THEN "popen" ELSE "done"
       \/ \* makedirs or open raises OSError, which save_test_code does not catch
          /\ WorkflowFailed(<<>>)
          /\ UNCHANGED file
    /\ UNCHANGED <<state, env, prompt, popen, child, pipe, emitted, full_output, clock, arg, ret, called>>

\* the command the operating system runs for Popen(args, shell=True) with
\* args a list: POSIX runs /bin/sh -c args[0] and hands the other items to
\* the shell as its own positional parameters; Windows joins the list into one
\* command line for cmd.exe
shell_command(platform, args) == IF platform = "posix" THEN <<args[1]>> ELSE args

E_perm == <<"P", "e", "r", "m", "i", "s", "s", "i", "o", "n", " ", "d", "e", "n", "i", "e", "d">>

\* lines 205-215
save_test_code_popen ==
    /\ pc = "popen"
    /\ LET args == <<"npx", "cypress", "run", "--spec", filepath>> IN
       /\ popen' = Append(popen, [args |-> args, shell |-> TRUE])
       /\ \/ /\ env.shell
             /\ child' = [status |-> "running", command |-> shell_command(env.platform, args), returncode |-> 0, exited_at |-> 0]
             /\ pipe' = [open |-> TRUE, buf |-> <<>>]
             /\ full_output' = <<>>
             /\ console' = Append(console, Say("running", <<>>))
             /\ pc' = "read"
          \/ \* the executable Popen itself starts, the shell, is missing
             /\ ~env.shell
             /\ console' = console \o <<Say("running", <<>>), Say("cypress_not_found", <<>>)>>
             /\ pc' = "done"
             /\ UNCHANGED <<child, pipe, full_output>>
          \/ \* any other exception of Popen
             /\ console' = console \o <<Say("running", <<>>),
                                        Say("unexpected_error", E_perm),
                                        Event("suggestion", <<>>, analyze_error(E_perm))>>
             /\ pc' = "done"
             /\ UNCHANGED <<child, pipe, full_output>>
    /\ UNCHANGED <<state, env, trail, prompt, file, emitted, clock, arg, ret, called>>

RE_error == <<"e", "r", "r", "o", "r">>

RE_failed == <<"f", "a", "i", "l", "e", "d">>

\* re.search(r"(error|failed|timed out|not found|assertion)", line, re.IGNORECASE)
looks_like_error(line) ==
    \E w \in {RE_error, RE_failed, KW_timed_out, KW_not_found, KW_assertion} : Contains(lower(line), w)

\* the hint computed from everything read so far
ai_hint_of_log(line, log) == analyze_error(log)

\* line 222: ai_hint = analyze_error(line)
ai_hint(line, log) == analyze_error(line)

\* lines 216-223: one turn of `for line in process.stdout`
save_test_code_readline ==
    /\ pc = "read"
    /\ pipe.buf # <<>>
    /\ LET line == Head(pipe.buf) IN
       /\ pipe' = [pipe EXCEPT !.buf = Tail(@)]
       /\ full_output' = full_output \o line
       /\ console' = console \o <<Say("echo", line)>>
                             \o (IF looks_like_error(line)
                                 THEN <<Event("hint", <<>>, ai_hint(line, full_output'))>>
                                 ELSE <<>>)
    /\ UNCHANGED <<pc, state, env, trail, prompt, file, popen, child, emitted, clock, arg, ret, called>>

\* the loop ends when the stream is at its end: every writer has closed it
\* and nothing is left to read; process.wait(timeout=300) is entered
save_test_code_eof ==
    /\ pc = "read"
    /\ pipe.buf = <<>>
    /\ ~pipe.open
    /\ pc' = "wait"
    /\ clock' = [clock EXCEPT !.wait_from = clock.now]
    /\ UNCHANGED <<state, env, trail, prompt, file, popen, child, pipe, emitted, full_output, console, arg, ret, called>>

\* the verdict that classifies the log whatever the exit code
verdict_always_final(returncode, log) ==
    <<Say(IF returncode = 0 THEN "passed" ELSE "failed", <<>>), Event("final", <<>>, analyze_error(log))>>

\* lines 227-233: what is printed once process.wait has returned
verdict(returncode, log) ==
    IF returncode = 0
    THEN <<Say("passed", <<>>)>>
    ELSE <<Say("failed", <<>>), Event("final", <<>>, analyze_error(log))>>

\* the bound given to process.wait, in seconds
TIMEOUT == 300

\* process.wait returns: the child has exited
save_test_code_wait_return ==
    /\ pc = "wait"
    /\ child.status = "exited"
    /\ console' = console \o verdict(child.returncode, full_output)
    /\ pc' = "done"
    /\ UNCHANGED <<state, env, trail, prompt, file, popen, child, pipe, emitted, full_output, clock, arg, ret, called>>

\* process.wait raises TimeoutExpired: the child has not exited 300 s after
\* wait was entered; lines 235-237
save_test_code_wait_timeout ==
    /\ pc = "wait"
    /\ child.status = "running"
    /\ clock.now - clock.wait_from >= TIMEOUT
    /\ console' = Append(console, Say("timed_out", <<>>))
    /\ child' = [child EXCEPT !.status = "killed", !.exited_at = clock.now]
    /\ pc' = "done"
    /\ UNCHANGED <<state, env, trail, prompt, file, popen, pipe, emitted, full_output, clock, arg, ret, called>>

(***************************************************************************)
(* The child process and the clock                                         *)
(***************************************************************************)
L_passing == <<"1", " ", "p", "a", "s", "s", "i", "n", "g", "\n">>

L_timed_out == <<"A", "s", "s", "e", "r", "t", "i", "o", "n", "E", "r", "r", "o", "r", ":", " ", "T", "i", "m", "e", "d", " ", "o", "u", "t", "\n">>

L_not_found == <<"e", "l", "e", "m", "e", "n", "t", " ", "n", "o", "t", " ", "f", "o", "u", "n", "d", "\n">>

L_sh_not_found == <<"s", "h", ":", " ", "1", ":", " ", "n", "p", "x", ":", " ", "n", "o", "t", " ", "f", "o", "u", "n", "d", "\n">>

L_cmd_not_recognized == <<"'", "n", "p", "x", "'", " ", "i", "s", " ", "n", "o", "t", " ", "r", "e", "c", "o", "g", "n", "i", "z", "e", "d", "\n">>

\* the lines a runner writes
RunnerLines == {L_passing, L_timed_out, L_not_found}

\* what the shell writes when it finds no npx, and its exit code
shell_complaint(platform) == IF platform = "posix" THEN L_sh_not_found ELSE L_cmd_not_recognized

shell_exit_code(platform) == IF platform = "posix" THEN 127 ELSE 1

ExitCodes == {0, 1}

\* how many lines the child writes
MaxLines == 2

\* the clock advances by TickLen seconds up to MaxClock
TickLen == 150

MaxClock == 600

child_write ==
    /\ child.status = "running"
    /\ pipe.open
    /\ Len(emitted) < MaxLines
    /\ \E line \in (IF env.npx THEN RunnerLines ELSE {shell_complaint(env.platform)}) :
          /\ env.npx \/ emitted = <<>>
          /\ pipe' = [pipe EXCEPT !.buf = Append(@, line)]
          /\ emitted' = Append(emitted, line)
    /\ UNCHANGED <<pc, state, env, trail, prompt, file, popen, child, full_output, console, clock, arg, ret, called>>

\* the child closes its output and keeps running
child_close_stdout ==
    /\ child.status = "running"
    /\ pipe.open
    /\ env.npx
    /\ pipe' = [pipe EXCEPT !.open = FALSE]
    /\ UNCHANGED <<pc, state, env, trail, prompt, file, popen, child, emitted, full_output, console, clock, arg, ret, called>>

child_exit ==
    /\ child.status = "running"
    /\ env.npx \/ emitted # <<>>
    /\ \E code \in (IF env.npx THEN ExitCodes ELSE {shell_exit_code(env.platform)}) :
          child' = [child EXCEPT !.status = "exited", !.returncode = code, !.exited_at = clock.now]
    /\ pipe' = [pipe EXCEPT !.open = FALSE]
    /\ UNCHANGED <<pc, state, env, trail, prompt, file, popen, emitted, full_output, console, clock, arg, ret, called>>

\* time passes while the child runs; process.wait raises as soon as its bound
\* is reached
tick ==
    /\ pc \in {"read", "wait"}
    /\ child.status = "running"
    /\ clock.now + TickLen <= MaxClock
    /\ ~(pc = "wait" /\ clock.now - clock.wait_from >= TIMEOUT)
    /\ clock' = [clock EXCEPT !.now = @ + TickLen]
    /\ UNCHANGED <<pc, state, env, trail, prompt, file, popen, child, pipe, emitted, full_output, console, arg, ret, called>>

T_old == <<"o", "l", "d", " ", "t", "e", "s", "t">>

\* QAState() is empty; the target file may be there from an earlier run
Init ==
    /\ pc = "fetch"
    /\ state = <<>>
    /\ env \in [platform : {"posix", "nt"}, shell : BOOLEAN, npx : BOOLEAN]
    /\ trail = <<>>
    /\ prompt = <<>>
    /\ file \in {[exists |-> FALSE, data |-> <<>>], [exists |-> TRUE, data |-> T_old]}
    /\ popen = <<>>
    /\ child = [status |-> "none", command |-> <<>>, returncode |-> 0, exited_at |-> 0]
    /\ pipe = [open |-> FALSE, buf |-> <<>>]
    /\ emitted = <<>>
    /\ full_output = <<>>
    /\ console = <<>>
    /\ clock = [now |-> 0, wait_from |-> 0]
    /\ arg = <<>>
    /\ ret = <<>>
    /\ called = FALSE

Next ==
    \/ fetch_jira_requirements
    \/ create_or_update_vector_store
    \/ generate_cypress_tests
    \/ save_test_code_write
    \/ save_test_code_popen
    \/ save_test_code_readline
    \/ save_test_code_eof
    \/ save_test_code_wait_return
    \/ save_test_code_wait_timeout
    \/ child_write
    \/ child_close_stdout
    \/ child_exit
    \/ tick

Spec == Init /\ [][Next]_vars

(***************************************************************************)
(* Vocabulary of the properties                                            *)
(***************************************************************************)
upper_char == [c \in Alphabet |-> IF \E i \in 1..26 : LowerChars[i] = c THEN UpperChars[CHOOSE i \in 1..26 : LowerChars[i] = c] ELSE c]

\* w occurs in text, letter case ignored
Occurs(text, w) ==
    \E i \in 1..Len(text) :
        /\ i + Len(w) - 1 <= Len(text)
        /\ \A j \in 1..Len(w) : upper_char[text[i + j - 1]] = upper_char[w[j]]

\* the categories in their order of precedence, each with the test of its
\* keywords on a text
Precedence == <<"CYPRESS_INSTALL_ISSUE", "ELEMENT_NOT_FOUND", "TIMEOUT_ERROR", "ELEMENT_NOT_VISIBLE",
                "ASSERTION_FAILED", "NETWORK_ISSUE", "CYPRESS_CONFIG", "ENCODING_ISSUE">>

Matches(text) ==
    <<Occurs(text, KW_could_not_verify) \/ Occurs(text, KW_verification),
      Occurs(text, KW_not_found) /\ (Occurs(text, KW_element) \/ Occurs(text, KW_selector)),
      Occurs(text, KW_timed_out) \/ Occurs(text, KW_timeout),
      Occurs(text, KW_not_visible) \/ Occurs(text, KW_not_actionable),
      Occurs(text, KW_expected) \/ Occurs(text, KW_assertion),
      Occurs(text, KW_network) \/ Occurs(text, KW_fetch),
      Occurs(text, KW_cypress_run),
      Occurs(text, KW_unicode) \/ Occurs(text, KW_encoding)>>

\* the category the ordered decision list gives a text
Decision(text) ==
    IF text = None \/ text = <<>> THEN "NO_ERROR_OUTPUT"
    ELSE LET m == Matches(text) IN
         IF \E k \in 1..8 : m[k]
         THEN Precedence[CHOOSE k \in 1..8 : m[k] /\ \A l \in 1..(k - 1) : ~m[l]]
         ELSE "UNKNOWN_ERROR"

\* the lines of a log, one after the other
RECURSIVE Log(_)
Log(lines) == IF lines = <<>> THEN <<>> ELSE Log(SubSeq(lines, 1, Len(lines) - 1)) \o lines[Len(lines)]

Printed(kind) == \E i \in 1..Len(console) : console[i].kind = kind

Echoed == SelectSeq(console, LAMBDA ev : ev.kind = "echo")

\* a line that matches error|failed|timed out|not found|assertion
Triggers(line) == \E w \in {RE_error, RE_failed, KW_timed_out, KW_not_found, KW_assertion} : Occurs(line, w)

\* the child was still running more than TIMEOUT seconds after it was started
Overran ==
    \/ child.status = "running" /\ clock.now > TIMEOUT
    \/ child.status \in {"exited", "killed"} /\ child.exited_at > TIMEOUT

(***************************************************************************)
(* Properties of save_test_code                                            *)
(***************************************************************************)
\* C1: a child that is still running after the 300 s bound is killed and the
\* run is reported as timed out, never as passed or failed.
C1_TimeoutEnforced ==
    (pc = "done" /\ Overran) =>
        /\ child.status = "killed"
        /\ Printed("timed_out")
        /\ ~Printed("passed")
        /\ ~Printed("failed")

\* C2: when npx cannot be located, the run reports "Cypress not found" and
\* neither a test failure nor a success.
C2_ToolingMissingReported ==
    (pc = "done" /\ popen # <<>> /\ ~env.npx /\ ~Printed("unexpected_error")) =>
        /\ Printed("cypress_not_found")
        /\ ~Printed("failed")
        /\ ~Printed("passed")

\* C3: once process.wait has returned, exit code zero reports success without
\* a final classification, and any other exit code reports failure followed
\* by exactly one final classification of the whole log, all lines in order;
\* a verdict is printed only after the child has exited and every line it
\* wrote has been read and echoed.
C3_ExitCodeVerdict ==
    LET finals == {i \in 1..Len(console) : console[i].kind = "final"} IN
    /\ (pc = "done" /\ child.status = "exited") =>
          IF child.returncode = 0
          THEN Printed("passed") /\ ~Printed("failed") /\ finals = {}
          ELSE /\ Printed("failed")
               /\ ~Printed("passed")
               /\ finals = {Len(console)}
               /\ console[Len(console)].advice = analyze_error(Log(emitted))
    /\ (Printed("passed") \/ Printed("failed") \/ finals # {}) =>
          /\ child.status = "exited"
          /\ ~pipe.open
          /\ pipe.buf = <<>>
          /\ [i \in 1..Len(Echoed) |-> Echoed[i].text] = emitted

C3_Witness ==
    /\ pc = "done"
    /\ child.status = "exited"
    /\ child.returncode # 0
    /\ Len(emitted) = 2
    /\ Printed("hint")
    /\ Printed("final")

\* C8, for an artifact that is not blank on a machine that has the shell and
\* npx: once Popen has returned, the file holds the artifact, Popen has been
\* called once, and the command that runs has the file's path as an argument.
C8_RunnerGetsPath ==
    (pc \in {"read", "wait", "done"} /\ Printed("saved") /\ strip(state["test_code"]) # <<>>
        /\ env.shell /\ env.npx /\ ~Printed("unexpected_error")) =>
        /\ file = [exists |-> TRUE, data |-> state["test_code"]]
        /\ Len(popen) = 1
        /\ child.status # "none"
        /\ filepath \in Range(child.command)

\* C9: the lines echoed are the lines the child wrote, each once and in the
\* order written; a hint follows at once the echo of a line that matches the
\* trigger pattern, and is the classification of that line alone; no other
\* hint is printed.
C9_LiveEchoAndHints ==
    /\ [i \in 1..Len(Echoed) |-> Echoed[i].text] \o pipe.buf = emitted
    /\ pc \in {"wait", "done"} => pipe.buf = <<>>
    /\ \A i \in 1..Len(console) :
          /\ console[i].kind = "hint" =>
                /\ i > 1
                /\ console[i - 1].kind = "echo"
                /\ Triggers(console[i - 1].text)
                /\ console[i].advice = analyze_error(console[i - 1].text)
          /\ (console[i].kind = "echo" /\ Triggers(console[i].text)) =>
                /\ i < Len(console)
                /\ console[i + 1].kind = "hint"

\* a hint is on the console while the child runs and has more to say
C9_Witness ==
    /\ child.status = "running"
    /\ pipe.open
    /\ Len(Echoed) = 2
    /\ Echoed[1].text = L_not_found
    /\ Echoed[2].text = L_timed_out
    /\ console[Len(console)].kind = "hint"
    /\ console[Len(console)].advice.advice = "TIMEOUT_ERROR"

(***************************************************************************)
(* Properties of the fetcher and the generator                             *)
(***************************************************************************)
\* C6: when llm.invoke raises, test_code is a string that is not empty,
\* begins with // and contains str(e), and the run goes on to save_test_code;
\* after the generation stage test_code is always set.
C6_GenerationFallback ==
    /\ \A i \in 1..Len(console) :
          console[i].kind = "generate_error" =>
              /\ "test_code" \in DOMAIN state
              /\ state["test_code"] # <<>>
              /\ Len(state["test_code"]) >= 2
              /\ SubSeq(state["test_code"], 1, 2) = <<"/", "/">>
              /\ Contains(state["test_code"], console[i].text)
              /\ pc = "save" \/ "SaveTests" \in Range(trail)
    /\ "GenerateTests" \in Range(trail) => "test_code" \in DOMAIN state

C6_Witness ==
    /\ \E i \in 1..Len(console) : console[i].kind = "generate_error" /\ console[i].text = E_quota
    /\ Printed("saved")
    /\ file.data = state["test_code"]

C4_DecisionList == called => ret.advice = Decision(arg)

\* a text with keywords of two categories in upper case: the earlier wins
C4_Witness ==
    /\ called
    /\ arg # None
    /\ Occurs(arg, KW_assertion)
    /\ Occurs(arg, KW_timed_out)
    /\ ~Contains(arg, KW_assertion)
    /\ ~Contains(arg, KW_timed_out)
    /\ ret.advice = "TIMEOUT_ERROR"

\* C5 as stated: a text with both "timeout" and "not found" is classified as
\* element-not-found.
C5_NotFoundBeatsTimeout ==
    (called /\ arg # None /\ Occurs(arg, KW_timeout) /\ Occurs(arg, KW_not_found)) =>
        ret.advice = "ELEMENT_NOT_FOUND"

\* C5, amended: a text with both "timeout" and "not found" and neither
\* tooling-verification phrase is classified as element-not-found if it also
\* contains "element" or "selector", and as timeout if it does not; with a
\* tooling-verification phrase it is classified as tooling-verification.
C5_NotFoundWithElementBeatsTimeout ==
    (called /\ arg # None /\ Occurs(arg, KW_timeout) /\ Occurs(arg, KW_not_found)) =>
        ret.advice = IF Occurs(arg, KW_could_not_verify) \/ Occurs(arg, KW_verification)
                     THEN "CYPRESS_INSTALL_ISSUE"
                     ELSE IF Occurs(arg, KW_element) \/ Occurs(arg, KW_selector)
                     THEN "ELEMENT_NOT_FOUND"
                     ELSE "TIMEOUT_ERROR"

C5_Witness ==
    /\ called
    /\ arg # None
    /\ Occurs(arg, KW_timeout)
    /\ Occurs(arg, KW_not_found)
    /\ Occurs(arg, KW_selector)
    /\ ret.advice = "ELEMENT_NOT_FOUND"

(***************************************************************************)
(* Properties of extract_text_from_adf                                     *)
(***************************************************************************)
\* the children of a node: the items of a dict's "content" list, the items
\* of a list
Children(node) ==
    IF node.py = "list" THEN node.items
    ELSE IF node.py = "dict" /\ "content" \in DOMAIN node.d /\ node.d.content.py = "list" THEN node.d.content.items
    ELSE <<>>

IsTextNode(node) == node.py = "dict" /\ "type" \in DOMAIN node.d /\ node.d.type = "text"

\* the places of the text nodes of a tree: the child indexes from the root
RECURSIVE TextPaths(_)
TextPaths(node) ==
    IF IsTextNode(node) THEN {<<>>}
    ELSE UNION {{<<i>> \o p : p \in TextPaths(Children(node)[i])} : i \in 1..Len(Children(node))}

RECURSIVE NodeAt(_, _)
NodeAt(node, path) == IF path = <<>> THEN node ELSE NodeAt(Children(node)[Head(path)], Tail(path))

\* p comes before q in the document
RECURSIVE Before(_, _)
Before(p, q) ==
    /\ p # <<>>
    /\ q # <<>>
    /\ \/ Head(p) < Head(q)
       \/ Head(p) = Head(q) /\ Before(Tail(p), Tail(q))

\* the literal text of the text nodes, in document order
TextsInOrder(tree) ==
    LET paths == TextPaths(tree)
        nth(k) == CHOOSE p \in paths : Cardinality({q \in paths : Before(q, p)}) = k - 1
    IN  [k \in 1..Cardinality(paths) |->
            IF "text" \in DOMAIN NodeAt(tree, nth(k)).d THEN NodeAt(tree, nth(k)).d.text ELSE <<>>]

\* fragments with one space between neighbours
RECURSIVE Spaced(_)
Spaced(parts) ==
    IF parts = <<>> THEN <<>>
    ELSE IF Len(parts) = 1 THEN parts[1]
    ELSE Spaced(SubSeq(parts, 1, Len(parts) - 1)) \o <<" ">> \o parts[Len(parts)]

\* C10: the result is the text of the N text nodes of the document, each
\* once, in document order, with a single space between neighbours.
C10_FlattenInDocumentOrder == called => ret = Spaced(TextsInOrder(arg))

\* two text nodes at different depths, the deeper one first
C10_Witness ==
    /\ called
    /\ TextPaths(arg) = {<<1, 1>>, <<2>>}
    /\ ret = <<"b", " ", "a">>

====
